---- MODULE Spec2Model ----
(***************************************************************************)
(* A model of the credential-store session of pottenziall/access:          *)
(* src/src/encrypter.py (Credentials, Encrypter) and the two places that   *)
(* use an Encrypter as a scoped block, src/src/app.py and src/__main__.py. *)
(*                                                                         *)
(* Python strings are TLA+ strings, handled with Len, SubSeq and \o, so    *)
(* that formatting and parsing are computed character by character.        *)
(* There is one working directory; a file path is written by the file's    *)
(* name inside it, the directory's own path is WORK_DIR.                   *)
(***************************************************************************)
EXTENDS Integers, Sequences, FiniteSets, TLC

\* ---------------------------------------------------------------- bounds
\* Calendar days the clock can show during a run (today runs 1..NumDays).
NumDays == 2
\* Calls a process makes in a run: Encrypter(path), add_content,
\* remove_credentials, search_in_content, decrypt_file, _generate_file_path
\* and a direct encrypt_into_new_file_if_content_updated. Leaving a block is
\* not counted.
MaxCalls == 3
\* Random names uuid.uuid4() can still hand out (each is handed out once).
NumUuids == 2
\* Calls each of two processes makes when two run side by side.
TwoCalls == 2

\* ------------------------------------------------------- python strings
\* str.isspace() for the characters the inputs of this model contain.
IsSpace(c) == c \in {" ", "\t", "\n"}

CharAt(s, i) == SubSeq(s, i, i)

\* s.endswith(suffix)
EndsWith(s, suffix) ==
    /\ Len(suffix) <= Len(s)
    /\ SubSeq(s, Len(s) - Len(suffix) + 1, Len(s)) = suffix

\* s.count(c) > 0 for a one-character c
Contains(s, c) == \E i \in 1..Len(s) : CharAt(s, i) = c

RECURSIVE LStrip(_)
LStrip(s) == IF Len(s) > 0 /\ IsSpace(CharAt(s, 1)) THEN LStrip(Tail(s)) ELSE s

RECURSIVE RStrip(_)
RStrip(s) ==
    IF Len(s) > 0 /\ IsSpace(CharAt(s, Len(s)))
    THEN RStrip(SubSeq(s, 1, Len(s) - 1))
    ELSE s

\* s.strip()
Strip(s) == RStrip(LStrip(s))

\* the k-th smallest member of a set of numbers
Nth(S, k) == CHOOSE x \in S : Cardinality({ y \in S : y < x }) = k - 1

\* s.split(sep) for a one-character sep: every occurrence of sep cuts, empty
\* pieces are kept, the result is never empty.
SplitOn(s, sep) ==
    LET cuts == { i \in 1..Len(s) : CharAt(s, i) = sep }
        n == Cardinality(cuts) + 1
        from(k) == IF k = 1 THEN 1 ELSE Nth(cuts, k - 1) + 1
        to(k) == IF k = n THEN Len(s) ELSE Nth(cuts, k) - 1
    IN  [k \in 1..n |-> SubSeq(s, from(k), to(k))]

\* s.split(): runs of whitespace cut, empty pieces are dropped.
SplitWs(s) ==
    LET starts == { i \in 1..Len(s) :
                      ~IsSpace(CharAt(s, i)) /\ (i = 1 \/ IsSpace(CharAt(s, i - 1))) }
        ends == { i \in 1..Len(s) :
                    ~IsSpace(CharAt(s, i))
                        /\ (i = Len(s) \/ IsSpace(CharAt(s, i + 1))) }
    IN  [k \in 1..Cardinality(starts) |-> SubSeq(s, Nth(starts, k), Nth(ends, k))]

\* sep.join(parts)
RECURSIVE Join(_, _)
Join(sep, parts) ==
    IF parts = << >> THEN ""
    ELSE IF Len(parts) = 1 THEN parts[1]
         ELSE parts[1] \o sep \o Join(sep, Tail(parts))

IsDigit(c) == c \in {"0", "1", "2", "3", "4", "5", "6", "7", "8", "9"}

\* str(n) padded with zeros to the width strftime gives %d, %m and %Y.
Pad(n, width) ==
    LET t == ToString(n)
    IN  IF Len(t) >= width THEN t
        ELSE SubSeq("0000", 1, width - Len(t)) \o t

\* ------------------------------------------------------------- calendar
\* The date the clock shows on day n of a run: 30.12.2023, 31.12.2023,
\* 01.01.2024, ...
Date(n) ==
    IF 29 + n <= 31
    THEN [day |-> 29 + n, month |-> 12, year |-> 2023]
    ELSE [day |-> n - 2, month |-> 1, year |-> 2024]

\* date.strftime("%d%m%Y") and date.strftime("%d.%m.%Y")
StrfCompact(d) == Pad(d.day, 2) \o Pad(d.month, 2) \o Pad(d.year, 4)
StrfDotted(d) == Pad(d.day, 2) \o "." \o Pad(d.month, 2) \o "." \o Pad(d.year, 4)

\* ---------------------------------------------------------- Credentials
FILE_ITEMS_SEPARATOR == "\n"

DEFAULT_KIND == "authentication"

\* re.match(r"\d\d.\d\d.\d\d\d\d", s): anchored at the start only, and "."
\* stands for any character but a newline.
DateMatch(s) ==
    /\ Len(s) >= 10
    /\ \A i \in {1, 2, 4, 5, 7, 8, 9, 10} : IsDigit(CharAt(s, i))
    /\ \A i \in {3, 6} : CharAt(s, i) # "\n"

\* The positional arguments after id, completed with the defaults of the
\* dataclass. default_date is the class attribute's value, computed once
\* when the module is imported.
WithDefaults(args, default_date) ==
    [resource   |-> args[1],
     login      |-> args[2],
     password   |-> args[3],
     kind       |-> IF Len(args) >= 4 THEN args[4] ELSE DEFAULT_KIND,
     updated_on |-> IF Len(args) >= 5 THEN args[5] ELSE default_date]

StrFields(c) == << c.resource, c.login, c.password, c.kind, c.updated_on >>

\* __post_init__ raises nothing
PostInitOk(c) ==
    /\ \A i \in 1..5 : ~Contains(StrFields(c)[i], " ")
    /\ DateMatch(c.updated_on)

\* Credentials(id, *args) returns an instance (raises neither TypeError for
\* a wrong number of arguments nor ValueError from __post_init__)
CredentialsOk(args, default_date) ==
    /\ Len(args) \in 3..5
    /\ PostInitOk(WithDefaults(args, default_date))

Credentials(id, args, default_date) ==
    [id |-> id] @@ WithDefaults(args, default_date)

\* a variant that leaves out updated_on
as_line_NoDate(c) ==
    Join(" ", << c.resource, c.login, c.password, c.kind >>)

as_line(c) == Join(" ", StrFields(c))

\* a variant that leaves out the resource
display_NoResource(c) ==
    Join("     ", << ToString(c.id), c.login, c.password, c.kind, c.updated_on >>)

\* __str__
display(c) == Join("     ", << ToString(c.id) >> \o StrFields(c))

\* a variant in which the first invalid line ends the loop
from_string_StopAtInvalid(string_value, id_start_from, default_date) ==
    LET lines == SplitOn(Strip(string_value), FILE_ITEMS_SEPARATOR)
        bad == { j \in 1..Len(lines) : ~CredentialsOk(SplitWs(lines[j]), default_date) }
    IN  { Credentials(id_start_from + k - 1, SplitWs(lines[k]), default_date) :
            k \in { j \in 1..Len(lines) : \A b \in bad : j < b } }

from_string(string_value, id_start_from, default_date) ==
    LET lines == SplitOn(Strip(string_value), FILE_ITEMS_SEPARATOR)
    IN  { Credentials(id_start_from + k - 1, SplitWs(lines[k]), default_date) :
            k \in { j \in 1..Len(lines) : CredentialsOk(SplitWs(lines[j]), default_date) } }

\* The value comparison the spec makes between records of two sessions:
\* every field but id.
Fields(c) == [f \in {"resource", "login", "password", "kind", "updated_on"} |-> c[f]]

\* ------------------------------------------------------------ directory
ENCRYPTED_FILE_EXTENSION == "gpg"

\* range(1, 1000) probes the indexes 1..999
MAX_FILE_INDEX == 999

WORK_DIR == "/tmp/access"
WRONG_PATH == "/wrong/dir/path"

\* Python's None, where a path or a result is optional
None == "<None>"

\* A file of the directory: what it holds and when it was last written.
\* kind "gpg" is something the cipher backend can decrypt to data, given the
\* right passphrase; kind "text" is plain bytes; kind "dir" is a subdirectory.
File(kind, data, mtime) == [kind |-> kind, data |-> data, mtime |-> mtime]

\* basename + "." + extension, for the date of `day` and the index i
FileName(day, i) ==
    "access_" \o StrfCompact(Date(day)) \o (IF i > 1 THEN "_" \o ToString(i) ELSE "")
        \o "." \o ENCRYPTED_FILE_EXTENSION

\* FileName for every day and index, computed once
FILE_NAMES ==
    [d \in 1..(NumDays + 2) |-> [i \in 1..MAX_FILE_INDEX |-> FileName(d, i)]]

\* str(uuid.uuid4()) + "." + extension, for the k-th random value
UuidName(k) ==
    "00000000-0000-4000-8000-00000000000" \o ToString(k) \o "." \o ENCRYPTED_FILE_EXTENSION

UuidNames == { UuidName(k) : k \in 1..NumUuids }

\* The loop of _generate_file_path reads the clock in every iteration. roll = 0:
\* midnight does not pass during the call; roll = r > 0: the iterations r, r+1,
\* ... read the next day's date.
DayAt(day, roll, i) == IF roll > 0 /\ i >= roll THEN day + 1 ELSE day

\* the indexes whose candidate name does not exist
FreeIndexes(names, day, roll) ==
    { i \in 1..MAX_FILE_INDEX : FILE_NAMES[DayAt(day, roll, i)][i] \notin names }

Min(S) == CHOOSE i \in S : \A j \in S : i <= j

\* _generate_file_path(dir_path), with the names in dir_path, the day at the
\* start of the call, the rollover and the value uuid4() would return
\* variants: one that does not probe the directory; one that, when every
\* candidate name is taken, returns the last candidate
_generate_file_path_First(names, day, roll, uuid_name) == FILE_NAMES[day][1]

_generate_file_path_NoFallback(names, day, roll, uuid_name) ==
    LET free == FreeIndexes(names, day, roll)
    IN  IF free # {}
        THEN FILE_NAMES[DayAt(day, roll, Min(free))][Min(free)]
        ELSE FILE_NAMES[DayAt(day, roll, MAX_FILE_INDEX)][MAX_FILE_INDEX]

_generate_file_path(names, day, roll, uuid_name) ==
    LET free == FreeIndexes(names, day, roll)
    IN  IF free # {}
        THEN FILE_NAMES[DayAt(day, roll, Min(free))][Min(free)]
        ELSE uuid_name

\* the loop reaches iteration `roll` (so that the rollover happens inside it)
ReachesRoll(names, day, roll) ==
    roll > 0 /\ \A i \in 1..(roll - 1) : FILE_NAMES[day][i] \in names

\* the greatest of a non-empty set of numbers
Max(S) == CHOOSE t \in S : \A u \in S : u <= t

\* the latest modification time in a directory that is not empty
MaxMtimeOf(fs) == Max({ fs[n].mtime : n \in DOMAIN fs })

\* the files whose name ends with the extension
EncryptedNames(fs) == { n \in DOMAIN fs : EndsWith(n, ENCRYPTED_FILE_EXTENSION) }

\* find_newest_encrypted_file(): the values it can return. The listing is
\* sorted by mtime, newest first, and the sort keeps files of equal mtime in
\* the order iterdir() yields them, which is any order.
\* a variant that does not look at the names
find_newest_encrypted_file_AnyName(fs) ==
    IF DOMAIN fs = {} THEN {None}
    ELSE { n \in DOMAIN fs : fs[n].mtime = MaxMtimeOf(fs) }

find_newest_encrypted_file(fs) ==
    LET encrypted == EncryptedNames(fs)
        newest == Max({ fs[n].mtime : n \in encrypted })
    IN  IF encrypted = {} THEN {None}
        ELSE { n \in encrypted : fs[n].mtime = newest }

\* ---------------------------------------------------------------- inputs
\* The plaintext of the snapshot and of the seed file a run can start with.
SNAPSHOT_CONTENT == "site.com user pw authentication 01.01.2023"
SEED_CONTENT == "site.com user pw authentication 01.01.2023\nseed.org su spw"

\* What a caller passes to add_content.
AddInputs ==
    { "new.com u2 pw2 authentication 02.01.2023",
      "bad line",
      "*.ex.com dev pw3",
      SNAPSHOT_CONTENT }

\* What a caller passes to search_in_content and remove_credentials.
Patterns == { "site.com", "SITE", "*.ex.com", "" }

\* The iteration at which midnight can pass inside _generate_file_path
\* (0: it does not).
Rolls == { 0, 2 }

\* The directory a run starts with.
EmptyDir == [n \in {} |-> File("gpg", "", 0)]

SeedDir ==
    [n \in {"access_01012023.gpg", "txt_with_content_example"} |->
        IF n = "txt_with_content_example"
        THEN File("text", SEED_CONTENT, 2)
        ELSE File("gpg", SNAPSHOT_CONTENT, 1)]

\* a snapshot of the first day of the run is there already, next to an older one
\* with the same mtime
TodayDir ==
    [n \in {FileName(1, 1), "access_01012023.gpg"} |->
        File("gpg", SNAPSHOT_CONTENT, 1)]

\* every candidate name of the first day of the run is taken
FullDir ==
    [n \in { FileName(1, i) : i \in 1..MAX_FILE_INDEX } |->
        File("gpg", SNAPSHOT_CONTENT, IF n = FileName(1, 1) THEN 2 ELSE 1)]

\* the newest entry whose name ends with the extension is a subdirectory
SubdirDir ==
    [n \in {"access_01012023.gpg", "old.gpg"} |->
        IF n = "old.gpg"
        THEN File("dir", "", 2)
        ELSE File("gpg", SNAPSHOT_CONTENT, 1)]

InitDirs == { EmptyDir, SeedDir, TodayDir, FullDir, SubdirDir }

MaxMtime(fs) ==
    IF DOMAIN fs = {} THEN 0 ELSE Max({ fs[n].mtime : n \in DOMAIN fs })

\* ----------------------------------------------------------------- state
VARIABLES
    today,                \* the day the clock showed when it was last read
    import_day,           \* the day the process imported encrypter.py
    files,                \* the working directory: name -> File
    clock,                \* the filesystem's time of last write
    scope,                \* how the live Encrypter is used: "none", "api"
                          \* (its methods are called directly), "with"
                          \* (app.py), "try" (__main__.py), "exited"
    dir,                  \* Encrypter.dir
    encrypted_file_path,  \* Encrypter.encrypted_file_path
    is_content_updated,   \* Encrypter._is_content_updated
    credentials,          \* Encrypter.__credentials
    last,                 \* the last call made and how it ended
    calls,                \* calls the process has made
    commit_calls,         \* calls of the commit on the live object
    dirty_commits,        \* ... of which with the flag set
    written,              \* files the backend has written for the live object
    other,                \* a second process on the same directory: its
                          \* Encrypter and its counters, while the variables
                          \* above show the process that is running
    pending               \* the path _generate_file_path has returned to
                          \* encrypt_bytes_content_into_file, while the backend
                          \* has not written yet and another process can run

vars ==
    << today, import_day, files, clock, scope, dir, encrypted_file_path,
       is_content_updated, credentials, last, calls, commit_calls,
       dirty_commits, written, other, pending >>

\* the default of Credentials.updated_on: datetime.today() when the class
\* statement ran
DefaultUpdatedOn == StrfDotted(Date(import_day))

\* The record of a call. day and roll say how the call read the clock;
\* backend is the cipher backend's answer ("ok", "failed") or "not called";
\* dirty is the flag, path encrypted_file_path and store the credentials, all
\* as the call found them; after is the call made before it.
Call(op, arg, day, roll, backend, raised, ret) ==
    [op |-> op, arg |-> arg, day |-> day, roll |-> roll, backend |-> backend,
     raised |-> raised, ret |-> ret, dirty |-> is_content_updated,
     path |-> encrypted_file_path, store |-> credentials, after |-> last.op]

Init ==
    /\ today = 1
    /\ import_day = 1
    /\ files \in InitDirs
    /\ clock = MaxMtime(files)
    /\ scope = "none"
    /\ dir = None
    /\ encrypted_file_path = None
    /\ is_content_updated = FALSE
    /\ credentials = {}
    /\ last = [op |-> "start", arg |-> None, day |-> 1, roll |-> 0,
               backend |-> "not called", raised |-> FALSE, ret |-> None,
               dirty |-> FALSE, path |-> None, store |-> {}, after |-> None]
    /\ calls = 0
    /\ commit_calls = 0
    /\ dirty_commits = 0
    /\ written = 0
    /\ other = [scope |-> "none", dir |-> None, encrypted_file_path |-> None,
                is_content_updated |-> FALSE, credentials |-> {}, calls |-> 0,
                commit_calls |-> 0, dirty_commits |-> 0, written |-> 0,
                pending |-> None]
    /\ pending = None

\* ----------------------------------------------------------------- search
\* The patterns of this model are made of literal characters and ".", with or
\* without a repeat operator in front. re.search compiles the pattern first,
\* and raises re.error ("nothing to repeat") for a repeat operator that
\* follows nothing.
re_error(pattern) == Len(pattern) > 0 /\ CharAt(pattern, 1) \in {"*", "+", "?"}

\* re.search(pattern, text), where it returns
MatchAt(pattern, text, k) ==
    \A j \in 1..Len(pattern) :
        IF CharAt(pattern, j) = "."
        THEN CharAt(text, k + j - 1) # "\n"
        ELSE CharAt(pattern, j) = CharAt(text, k + j - 1)

re_search(pattern, text) ==
    /\ ~re_error(pattern)
    /\ \E k \in 1..(Len(text) - Len(pattern) + 1) : MatchAt(pattern, text, k)

\* search_in_content raises: the store is not empty and re.search raises on the
\* first record
SearchRaises(store, pattern) == store # {} /\ re_error(pattern)

\* a variant that returns every record
search_in_content_All(store, pattern) == store

\* search_in_content(pattern), where it returns
search_in_content(store, pattern) ==
    IF store = {} THEN {}
    ELSE { c \in store : re_search(pattern, display(c)) }

\* ------------------------------------------------------------------ open
\* Encrypter.items_count()
items_count(store) == Cardinality(store)

\* decrypt_file raises on this path before it calls the backend
NotDecryptable(fs, path) ==
    \/ path \notin DOMAIN fs
    \/ fs[path].kind = "dir"
    \/ ~EndsWith(path, ENCRYPTED_FILE_EXTENSION)

\* result.ok of gpg.decrypt_file(path): the backend can fail on any file (a
\* wrong passphrase), and fails on a file that holds no encrypted data
DecryptResultOk(fs, path, backend_ok) == backend_ok /\ fs[path].kind = "gpg"

\* result.data of gpg.decrypt_file(path)
DecryptResultData(fs, path, result_ok) == IF result_ok THEN fs[path].data ELSE ""

\* a variant that does not look at result.ok
DecryptRaises_Never(result_ok) == FALSE

\* `if not result.ok: raise ValueError("Wrong password")`
DecryptRaises(result_ok) == ~result_ok

\* a variant in which the loaded records replace the store
Decrypted_Replace(store, data) == from_string(data, 1, DefaultUpdatedOn)

\* the store after decrypt_file has loaded `data`
Decrypted(store, data) ==
    store \cup from_string(data, items_count(store) + 1, DefaultUpdatedOn)

\* the store after _update_credentials(from_string(content, ...))
Updated(store, content) ==
    store \cup from_string(content, items_count(store) + 1, DefaultUpdatedOn)

Answer(result_ok) == IF result_ok THEN "ok" ELSE "failed"

\* path.is_file() and path.is_dir()
is_file(fs, path) == path \in DOMAIN fs /\ fs[path].kind # "dir"

is_dir(fs, path) == path = WORK_DIR

\* a variant that takes every path for a directory
WrongPath_Never(fs, path) == FALSE

\* the else branch of _handle_input_path: `raise ValueError("Wrong path passed")`
WrongPath(fs, path) == ~is_file(fs, path) /\ ~is_dir(fs, path)

\* a variant that reads every file as a plaintext seed
Seeded_AnyFile(fs, path) == is_file(fs, path)

\* the path is a file that is read as a plaintext seed
Seeded(fs, path) ==
    is_file(fs, path) /\ ~EndsWith(path, ENCRYPTED_FILE_EXTENSION)

\* a variant that decrypts the newest snapshot whatever file was given
file_to_decrypt_Newest(fs, path, target) ==
    IF is_file(fs, path) \/ is_dir(fs, path) THEN target ELSE None

\* file_to_decrypt of _handle_input_path; `target` is what
\* find_newest_encrypted_file returns
file_to_decrypt(fs, path, target) ==
    IF is_file(fs, path) /\ ~Seeded(fs, path) THEN path
    ELSE IF is_file(fs, path) \/ is_dir(fs, path) THEN target
    ELSE None

\* Encrypter(path) in one of the three ways of use. `target` is what
\* find_newest_encrypted_file returns, `backend_ok` how the backend answers.
\* The record of the call shows the object as decrypt_file found it.
Open(path, mode, target, backend_ok) ==
    LET wrong   == WrongPath(files, path)
        seeded  == Seeded(files, path)
        store1  == IF seeded THEN Updated({}, files[path].data) ELSE {}
        to_decrypt == IF wrong THEN None ELSE file_to_decrypt(files, path, target)
        called    == to_decrypt # None /\ ~NotDecryptable(files, to_decrypt)
        result_ok == called /\ DecryptResultOk(files, to_decrypt, backend_ok)
        failed    == to_decrypt # None /\ (~called \/ DecryptRaises(result_ok))
        loaded    == called /\ ~failed
    IN  /\ scope \in {"none", "api", "exited"}
        /\ calls < MaxCalls
        /\ calls' = calls + 1
        /\ scope' = IF wrong \/ failed THEN "none" ELSE mode
        /\ dir' = IF wrong THEN None ELSE WORK_DIR
        /\ is_content_updated' = seeded
        /\ credentials' =
              IF loaded
              THEN Decrypted(store1, DecryptResultData(files, to_decrypt, result_ok))
              ELSE store1
        /\ encrypted_file_path' = IF loaded THEN to_decrypt ELSE None
        /\ last' = [op |-> "open", arg |-> path, day |-> today, roll |-> 0,
                    backend |-> IF called THEN Answer(result_ok) ELSE "not called",
                    raised |-> wrong \/ failed, ret |-> to_decrypt,
                    dirty |-> seeded, path |-> None, store |-> store1,
                    after |-> last.op]
        /\ commit_calls' = 0
        /\ dirty_commits' = 0
        /\ written' = 0
        /\ UNCHANGED << other, pending, today, import_day, files, clock >>

\* an Encrypter is live
InBody == scope \in {"api", "with", "try"}

\* Encrypter.decrypt_file(path), called on the live object
DecryptFile(path, backend_ok) ==
    LET called    == ~NotDecryptable(files, path)
        result_ok == called /\ DecryptResultOk(files, path, backend_ok)
        raised    == ~called \/ DecryptRaises(result_ok)
    IN  /\ scope = "api"
        /\ calls < MaxCalls
        /\ calls' = calls + 1
        /\ last' = Call("decrypt_file", path, today, 0,
                        IF called THEN Answer(result_ok) ELSE "not called",
                        raised, None)
        /\ IF raised
           THEN UNCHANGED << credentials, encrypted_file_path >>
           ELSE /\ encrypted_file_path' = path
                /\ credentials' =
                      Decrypted(credentials, DecryptResultData(files, path, result_ok))
        /\ UNCHANGED << other, pending, today, import_day, files, clock, scope, dir,
                        is_content_updated, commit_calls, dirty_commits,
                        written >>

\* ---------------------------------------------------- add, search, remove
\* Encrypter.add_content(content)
AddContent(content) ==
    /\ InBody
    /\ calls < MaxCalls
    /\ calls' = calls + 1
    /\ credentials' = Updated(credentials, content)
    /\ is_content_updated' = TRUE
    /\ last' = Call("add_content", content, today, 0, "not called", FALSE, None)
    /\ UNCHANGED << other, pending, today, import_day, files, clock, scope, dir,
                    encrypted_file_path, commit_calls, dirty_commits, written >>

\* a variant that marks the content as updated
Search_SetsFlag(pattern) ==
    /\ InBody
    /\ calls < MaxCalls
    /\ calls' = calls + 1
    /\ is_content_updated' = TRUE
    /\ last' = IF SearchRaises(credentials, pattern)
               THEN Call("search_in_content", pattern, today, 0, "not called", TRUE,
                         None)
               ELSE Call("search_in_content", pattern, today, 0, "not called", FALSE,
                         search_in_content(credentials, pattern))
    /\ UNCHANGED << other, pending, today, import_day, files, clock, scope, dir,
                    encrypted_file_path, credentials, commit_calls,
                    dirty_commits, written >>

\* Encrypter.search_in_content(pattern)
Search(pattern) ==
    /\ InBody
    /\ calls < MaxCalls
    /\ calls' = calls + 1
    /\ last' = IF SearchRaises(credentials, pattern)
               THEN Call("search_in_content", pattern, today, 0, "not called", TRUE,
                         None)
               ELSE Call("search_in_content", pattern, today, 0, "not called", FALSE,
                         search_in_content(credentials, pattern))
    /\ UNCHANGED << other, pending, today, import_day, files, clock, scope, dir,
                    encrypted_file_path, is_content_updated, credentials,
                    commit_calls, dirty_commits, written >>

\* a variant that empties the store
Removed_All(store, found) == {}

\* self.__credentials = self.__credentials - found
Removed(store, found) == store \ found

\* a variant without the early return for an empty pattern
RemoveCredentials_NoEarlyReturn(pattern) ==
    /\ InBody
    /\ calls < MaxCalls
    /\ calls' = calls + 1
    /\ last' = Call("remove_credentials", pattern, today, 0, "not called",
                    SearchRaises(credentials, pattern), None)
    /\ IF SearchRaises(credentials, pattern)
       THEN UNCHANGED << credentials, is_content_updated >>
       ELSE /\ credentials' = Removed(credentials, search_in_content(credentials, pattern))
            /\ is_content_updated' = TRUE
    /\ UNCHANGED << other, pending, today, import_day, files, clock, scope, dir,
                    encrypted_file_path, commit_calls, dirty_commits, written >>

\* Encrypter.remove_credentials(pattern)
RemoveCredentials(pattern) ==
    /\ InBody
    /\ calls < MaxCalls
    /\ calls' = calls + 1
    /\ last' = Call("remove_credentials", pattern, today, 0, "not called",
                    pattern # "" /\ SearchRaises(credentials, pattern), None)
    /\ IF pattern = "" \/ SearchRaises(credentials, pattern)
       THEN UNCHANGED << credentials, is_content_updated >>
       ELSE /\ credentials' = Removed(credentials, search_in_content(credentials, pattern))
            /\ is_content_updated' = TRUE
    /\ UNCHANGED << other, pending, today, import_day, files, clock, scope, dir,
                    encrypted_file_path, commit_calls, dirty_commits, written >>

\* ----------------------------------------------------------------- commit
\* The orders in which iterating over the set `store` yields its records: the
\* order depends on the records' hashes. Two orders are drawn, one and its
\* reverse.
RECURSIVE SomeOrder(_)
SomeOrder(store) ==
    IF store = {} THEN << >>
    ELSE LET c == CHOOSE c \in store : TRUE
         IN  << c >> \o SomeOrder(store \ {c})

Reverse(seq) == [i \in 1..Len(seq) |-> seq[Len(seq) + 1 - i]]

Orders(store) == { SomeOrder(store), Reverse(SomeOrder(store)) }

\* a variant that loses the last record of the iteration
content_string_DropLast(order) ==
    Join(FILE_ITEMS_SEPARATOR, [i \in 1..(Len(order) - 1) |-> as_line(order[i])])

\* a variant that writes, after the records, what the newest snapshot of the
\* directory holds
content_string_Merged(order) ==
    LET newest == CHOOSE n \in find_newest_encrypted_file(files) : TRUE
        mine == Join(FILE_ITEMS_SEPARATOR, [i \in 1..Len(order) |-> as_line(order[i])])
    IN  IF newest = None \/ files[newest].data = "" THEN mine
        ELSE IF mine = "" THEN files[newest].data
        ELSE mine \o FILE_ITEMS_SEPARATOR \o files[newest].data

\* FILE_ITEMS_SEPARATOR.join([c.as_line() for c in self.__credentials])
content_string(order) ==
    Join(FILE_ITEMS_SEPARATOR, [i \in 1..Len(order) |-> as_line(order[i])])

\* variants of the guard: one that never skips, one that always skips
NothingToCommit_Never(flag) == FALSE

NothingToCommit_Always(flag) == TRUE

\* the guard of encrypt_into_new_file_if_content_updated: nothing to write
NothingToCommit(flag) == ~flag

\* `if not result.ok: raise RuntimeError(...)`
EncryptRaises(result_ok) == ~result_ok

\* variants: the flag is never reset; the flag is reset before the backend is
\* called
FlagAfterCommit_Keep(raises, flag) == flag

FlagAfterCommit_ResetFirst(raises, flag) == FALSE

\* _is_content_updated and encrypted_file_path after the commit: the two
\* assignments follow the call of encrypt_bytes_content_into_file
FlagAfterCommit(raises, flag) == IF raises THEN flag ELSE FALSE

PathAfterCommit(raises, path, new_path) == IF raises THEN path ELSE new_path

\* a variant that writes over the file the object was loaded from
OutputPath_InPlace(file_path, loaded_from) ==
    IF loaded_from # None THEN loaded_from ELSE file_path

\* output=str(file_path): the backend writes to the generated path, whatever
\* file the object was loaded from
OutputPath(file_path, loaded_from) == file_path

\* the directory after the backend has written `data` to `path`
WriteFile(fs, path, data, mtime) ==
    [n \in DOMAIN fs \cup {path} |->
        IF n = path THEN File("gpg", data, mtime) ELSE fs[n]]

\* the uuid4 values a call can draw: a random name is taken never to repeat
\* one in use
FreshUuidNames(names) == UuidNames \ names

\* The clock can show `day` at the start of a call of _generate_file_path made
\* now, and midnight can pass at its iteration `roll`.
ClockOk(day, roll) ==
    /\ day \in today..NumDays
    /\ roll > 0 => day < NumDays /\ ReachesRoll(DOMAIN files, day, roll)

\* what _generate_file_path can return then
GeneratedPaths(day, roll) ==
    IF FreeIndexes(DOMAIN files, day, roll) = {}
    THEN { _generate_file_path(DOMAIN files, day, roll, u) :
             u \in FreshUuidNames(DOMAIN files) }
    ELSE { _generate_file_path(DOMAIN files, day, roll, None) }

\* encrypt_into_new_file_if_content_updated(), reported as the call `op`.
\*   day         the day the clock shows when the call starts
\*   roll        the iteration of _generate_file_path at which midnight passes
\*   file_path   what _generate_file_path returns
\*   result_ok   result.ok of gpg.encrypt_file; the backend writes its output
\*               when it succeeds and nothing when it fails
\*   dt          0: the write's mtime ties with the previous write's; 1: later
\*   order       the iteration order of the set of credentials
Commit(op, arg, day, roll, file_path, result_ok, dt, order) ==
    LET skip   == NothingToCommit(is_content_updated)
        raises == EncryptRaises(result_ok)
    IN  /\ commit_calls' = commit_calls + 1
        /\ dirty_commits' = dirty_commits + (IF is_content_updated THEN 1 ELSE 0)
        /\ IF skip
           THEN /\ last' = Call(op, arg, today, 0, "not called", FALSE, None)
                /\ UNCHANGED << today, files, clock, encrypted_file_path,
                                is_content_updated, written >>
           ELSE /\ today' = DayAt(day, roll, roll)
                /\ files' = IF result_ok
                            THEN WriteFile(files,
                                           OutputPath(file_path, encrypted_file_path),
                                           content_string(order), clock + dt)
                            ELSE files
                /\ clock' = IF result_ok THEN clock + dt ELSE clock
                /\ written' = written + (IF result_ok THEN 1 ELSE 0)
                /\ is_content_updated' = FlagAfterCommit(raises, is_content_updated)
                /\ encrypted_file_path' =
                      PathAfterCommit(raises, encrypted_file_path, file_path)
                /\ last' = Call(op, arg, day, roll, Answer(result_ok), raises,
                                IF raises THEN None ELSE file_path)

\* a commit made now and reported as one of the calls `reports` (pairs of op
\* and arg), with every input that makes a difference
CommitNow(reports, day, roll) ==
    IF NothingToCommit(is_content_updated)
    THEN /\ day = today
         /\ roll = 0
         /\ \E r \in reports : Commit(r[1], r[2], day, roll, None, TRUE, 0, << >>)
    ELSE /\ ClockOk(day, roll)
         /\ \E file_path \in GeneratedPaths(day, roll) :
               \E r \in reports, result_ok \in BOOLEAN, dt \in {0, 1},
                  order \in Orders(credentials) :
                  Commit(r[1], r[2], day, roll, file_path, result_ok, dt, order)

\* a direct call of encrypt_into_new_file_if_content_updated
CommitCall(day, roll) ==
    /\ scope = "api"
    /\ calls < MaxCalls
    /\ calls' = calls + 1
    /\ CommitNow({<< "commit", None >>}, day, roll)
    /\ UNCHANGED << other, pending, import_day, scope, dir, credentials >>

\* How control leaves the block of app.py's `with` and of __main__.py's `try`.
\* The loop inside has no break: it is left by an exception only; a `with`
\* block written elsewhere (the tests) can also run to its end.
ExitKinds(mode) ==
    IF mode = "with" THEN {"return", "exception", "timeout"}
    ELSE {"exception", "timeout"}

\* Encrypter.__exit__ and the finally clause of run_function_with_result_save
ExitBlock(day, roll) ==
    /\ scope \in {"with", "try"}
    /\ CommitNow({ << "exit", kind >> : kind \in ExitKinds(scope) }, day, roll)
    /\ scope' = "exited"
    /\ UNCHANGED << other, pending, import_day, dir, credentials, calls >>

\* a call of _generate_file_path(self.dir) that creates no file
GenerateFilePath(day, roll) ==
    /\ scope = "api"
    /\ calls < MaxCalls
    /\ calls' = calls + 1
    /\ ClockOk(day, roll)
    /\ today' = DayAt(day, roll, roll)
    /\ \E file_path \in GeneratedPaths(day, roll) :
          last' = Call("_generate_file_path", None, day, roll, "not called", FALSE,
                       file_path)
    /\ UNCHANGED << other, pending, import_day, files, clock, scope, dir, encrypted_file_path,
                    is_content_updated, credentials, commit_calls,
                    dirty_commits, written >>

\* The paths a caller passes to Encrypter(path) and to decrypt_file(path): the
\* directory, a path that does not exist, and files of the directory.
Paths ==
    {WORK_DIR, WRONG_PATH}
        \cup ({"txt_with_content_example", "access_01012023.gpg", FileName(1, 1)}
                \cap DOMAIN files)

Next ==
    \/ \E path \in Paths, mode \in {"api", "with", "try"},
          target \in find_newest_encrypted_file(files), ok \in BOOLEAN :
          Open(path, mode, target, ok)
    \/ \E path \in Paths, ok \in BOOLEAN : DecryptFile(path, ok)
    \/ \E content \in AddInputs : AddContent(content)
    \/ \E pattern \in Patterns : Search(pattern)
    \/ \E pattern \in Patterns : RemoveCredentials(pattern)
    \/ \E day \in 1..NumDays, roll \in Rolls : CommitCall(day, roll)
    \/ \E day \in 1..NumDays, roll \in Rolls : ExitBlock(day, roll)
    \/ \E day \in 1..NumDays, roll \in Rolls : GenerateFilePath(day, roll)

Spec == Init /\ [][Next]_vars

\* ------------------------------------------ the Credentials class by itself
\* The values a caller passes to Credentials(id, *args), as the tests do.
ResourceValues == { "site.com", "a b", "a\tb", "" }

LoginValues == { "user", "us er" }

KindValues == { "authentication", "k\nind" }

DateValues ==
    { "01.01.2023", "0101.2023", "01.01.2023xyz", "01-01-2023", "1.1.2023",
      "01\t01\t2023" }

CredentialsArgs ==
    { << r, l, "pw" >> : r \in ResourceValues, l \in LoginValues }
        \cup { << r, l, "pw", k >> :
                  r \in ResourceValues, l \in LoginValues, k \in KindValues }
        \cup { << r, l, "pw", k, d >> :
                  r \in ResourceValues, l \in LoginValues, k \in KindValues,
                  d \in DateValues }
        \cup { << "site.com", "user" >>,
               << "site.com", "user", "pw", "authentication", "01.01.2023", "more" >> }

CredentialsIds == { 1, 7 }

\* The texts a caller passes to Credentials.from_string.
FromStringInputs ==
    { "",
      SEED_CONTENT,
      "a.org u1 p1\nbad line\nb.org u2 p2 token 0101.2023\n\nc.org u3 p3 token",
      "\n  a.org u1 p1\t kind 01.01.2023  \n",
      "a.org u1 p1\na.org u1 p1",
      "a.org u1 p1 authentication 01.01.2023 more" }

\* Credentials(id, *args), as the first call of a run
Construct(id, args) ==
    LET ok == CredentialsOk(args, DefaultUpdatedOn)
    IN  /\ calls = 0
        /\ calls' = calls + 1
        /\ last' = Call("Credentials", args, today, 0, "not called", ~ok,
                        IF ok THEN Credentials(id, args, DefaultUpdatedOn) ELSE None)
        /\ UNCHANGED << other, pending, today, import_day, files, clock, scope, dir,
                        encrypted_file_path, is_content_updated, credentials,
                        commit_calls, dirty_commits, written >>

\* Credentials.from_string(c.as_line(), id_start_from=c.id), for the instance c
\* the call before has made
Reparse ==
    /\ last.op = "Credentials"
    /\ ~last.raised
    /\ calls < MaxCalls
    /\ calls' = calls + 1
    /\ last' = Call("from_string of as_line", as_line(last.ret), today, 0,
                    "not called", FALSE,
                    from_string(as_line(last.ret), last.ret.id, DefaultUpdatedOn))
    /\ UNCHANGED << other, pending, today, import_day, files, clock, scope, dir,
                    encrypted_file_path, is_content_updated, credentials,
                    commit_calls, dirty_commits, written >>

\* Credentials.from_string(string_value, id_start_from): every exception of a
\* line is caught inside the loop
FromString(string_value, id_start_from) ==
    /\ calls < MaxCalls
    /\ calls' = calls + 1
    /\ last' = Call("from_string", string_value, today, 0, "not called", FALSE,
                    from_string(string_value, id_start_from, DefaultUpdatedOn))
    /\ UNCHANGED << other, pending, today, import_day, files, clock, scope, dir,
                    encrypted_file_path, is_content_updated, credentials,
                    commit_calls, dirty_commits, written >>

CredentialsInit == Init /\ files = EmptyDir

CredentialsNext ==
    \/ \E id \in CredentialsIds, args \in CredentialsArgs : Construct(id, args)
    \/ Reparse
    \/ \E text \in FromStringInputs, id \in CredentialsIds : FromString(text, id)

CredentialsSpec == CredentialsInit /\ [][CredentialsNext]_vars

\* -------------------------------------------- two processes, one directory
\* Each process has its own Encrypter; the directory and the clock are shared.
\* A call of one process runs to its end before a call of the other starts.

\* the Encrypter and the counters of the process that is running
Running ==
    [scope |-> scope, dir |-> dir, encrypted_file_path |-> encrypted_file_path,
     is_content_updated |-> is_content_updated, credentials |-> credentials,
     calls |-> calls, commit_calls |-> commit_calls,
     dirty_commits |-> dirty_commits, written |-> written, pending |-> pending]

\* the scheduler lets the other process run
Switch ==
    /\ other' = Running
    /\ scope' = other.scope
    /\ dir' = other.dir
    /\ encrypted_file_path' = other.encrypted_file_path
    /\ is_content_updated' = other.is_content_updated
    /\ credentials' = other.credentials
    /\ calls' = other.calls
    /\ commit_calls' = other.commit_calls
    /\ dirty_commits' = other.dirty_commits
    /\ written' = other.written
    /\ pending' = other.pending
    /\ UNCHANGED << today, import_day, files, clock, last >>

\* What the two processes add.
TwoAddInputs == { "new.com u2 pw2 authentication 02.01.2023", "*.ex.com dev pw3" }

TwoInit == Init /\ files \in {EmptyDir, TodayDir}

\* each process runs app.py once: `with Encrypter(dir) as encrypter:`, calls
\* add_content, and leaves the block by an exception
TwoNext ==
    \/ Switch
    \/ \E target \in find_newest_encrypted_file(files), ok \in BOOLEAN :
          scope = "none" /\ calls = 0 /\ Open(WORK_DIR, "with", target, ok)
    \/ \E content \in TwoAddInputs : calls < TwoCalls /\ AddContent(content)
    \/ ExitBlock(today, 0) /\ last'.arg = "exception"

TwoSpec == TwoInit /\ [][TwoNext]_vars

\* ------------------------------- two processes, commits that interleave
\* encrypt_bytes_content_into_file takes a name from _generate_file_path, which
\* looks for a name that does not exist, and then has the backend write to it;
\* nothing holds the name in between, and the other process can run there.

\* the first half of a commit with the flag set: _generate_file_path has
\* returned and the backend has not been called yet
GeneratePending ==
    /\ scope = "api"
    /\ is_content_updated
    /\ pending = None
    /\ commit_calls = 0
    /\ calls' = calls + 1
    /\ \E file_path \in GeneratedPaths(today, 0) :
          /\ pending' = file_path
          /\ last' = Call("_generate_file_path", None, today, 0, "not called",
                          FALSE, file_path)
    /\ UNCHANGED << other, today, import_day, files, clock, scope, dir,
                    encrypted_file_path, is_content_updated, credentials,
                    commit_calls, dirty_commits, written >>

\* the second half: the backend writes to the name taken before, and the
\* commit returns
WritePending(result_ok, dt, order) ==
    /\ pending # None
    /\ Commit("commit", None, today, 0, pending, result_ok, dt, order)
    /\ pending' = None
    /\ UNCHANGED << other, import_day, scope, dir, credentials, calls >>

RaceInit == Init /\ files \in {EmptyDir, TodayDir}

\* each process opens the directory, adds one line and commits
RaceNext ==
    \/ Switch
    \/ \E target \in find_newest_encrypted_file(files), ok \in BOOLEAN :
          scope = "none" /\ calls = 0 /\ Open(WORK_DIR, "api", target, ok)
    \/ \E content \in TwoAddInputs :
          calls < TwoCalls /\ pending = None /\ AddContent(content)
    \/ GeneratePending
    \/ \E result_ok \in BOOLEAN, dt \in {0, 1}, order \in Orders(credentials) :
          WritePending(result_ok, dt, order)

RaceSpec == RaceInit /\ [][RaceNext]_vars

\* ------------------------------------------- sessions on a plaintext seed
\* a text file none of whose lines is a record
NOTES_CONTENT == "bad line\n"

\* the seed files a session is opened on
SeedFiles == { "txt_with_content_example", "notes" }

\* a directory with a snapshot and two text files
NotesDir ==
    [n \in {"access_01012023.gpg"} \cup SeedFiles |->
        IF n = "txt_with_content_example"
        THEN File("text", SEED_CONTENT, 2)
        ELSE IF n = "notes"
        THEN File("text", NOTES_CONTENT, 1)
        ELSE File("gpg", SNAPSHOT_CONTENT, 1)]

\* a directory with the two text files only
NotesOnlyDir ==
    [n \in SeedFiles |->
        IF n = "txt_with_content_example"
        THEN File("text", SEED_CONTENT, 2)
        ELSE File("text", NOTES_CONTENT, 1)]

SeedInit ==
    /\ today = 1
    /\ import_day = 1
    /\ files \in { NotesDir, NotesOnlyDir }
    /\ clock = 2
    /\ scope = "none"
    /\ dir = None
    /\ encrypted_file_path = None
    /\ is_content_updated = FALSE
    /\ credentials = {}
    /\ last = [op |-> "start", arg |-> None, day |-> 1, roll |-> 0,
               backend |-> "not called", raised |-> FALSE, ret |-> None,
               dirty |-> FALSE, path |-> None, store |-> {}, after |-> None]
    /\ calls = 0
    /\ commit_calls = 0
    /\ dirty_commits = 0
    /\ written = 0
    /\ other = [scope |-> "none", dir |-> None, encrypted_file_path |-> None,
                is_content_updated |-> FALSE, credentials |-> {}, calls |-> 0,
                commit_calls |-> 0, dirty_commits |-> 0, written |-> 0,
                pending |-> None]
    /\ pending = None

\* one session: `with Encrypter(seed) as encrypter:` with searches in the block
SeedNext ==
    \/ \E path \in SeedFiles, mode \in {"with", "try"},
          target \in find_newest_encrypted_file(files), ok \in BOOLEAN :
          calls = 0 /\ Open(path, mode, target, ok)
    \/ \E pattern \in Patterns : Search(pattern)
    \/ \E day \in 1..NumDays, roll \in Rolls : ExitBlock(day, roll)

SeedSpec == SeedInit /\ [][SeedNext]_vars

\* ------------------------------------------------------- the config file
\* A JSON object with string values is a sequence of << key, value >> pairs, in
\* the order the dict holds them.
CONFIG_PATH == "/home/user/.config/access.conf"

\* Path().absolute() when app.py was imported
DEFAULT_WORK_DIR == "/home/user/access"

STORE_DIR == "/srv/store"
STORE_FILE == "/srv/store/access_01012023.gpg"

\* the directories that exist
ExistingDirs == { WORK_DIR, DEFAULT_WORK_DIR, STORE_DIR }

\* Path.is_dir()
path_is_dir(path) == path \in ExistingDirs

\* Path.parent of an absolute path below the root
parent(path) ==
    LET cuts == { i \in 1..Len(path) : CharAt(path, i) = "/" }
    IN  SubSeq(path, 1, Max(cuts) - 1)

\* key in d
dict_has(d, key) == \E i \in 1..Len(d) : d[i][1] = key

\* d.get(key, default)
dict_get(d, key, default) ==
    IF dict_has(d, key)
    THEN d[CHOOSE i \in 1..Len(d) : d[i][1] = key][2]
    ELSE default

\* d[key] = value: a key the dict holds keeps its place
dict_set(d, key, value) ==
    IF dict_has(d, key)
    THEN [i \in 1..Len(d) |-> IF d[i][1] = key THEN << key, value >> ELSE d[i]]
    ELSE Append(d, << key, value >>)

\* d.update(data)
RECURSIVE dict_update(_, _)
dict_update(d, data) ==
    IF data = << >> THEN d
    ELSE dict_update(dict_set(d, data[1][1], data[1][2]), Tail(data))

\* json.dumps(d)
json_dumps(d) ==
    "{" \o Join(", ", [i \in 1..Len(d) |->
                          "\"" \o d[i][1] \o "\": \"" \o d[i][2] \o "\""]) \o "}"

\* the text between the quotes of a JSON string
unquote(t) == SubSeq(Strip(t), 2, Len(Strip(t)) - 1)

\* json.loads(text), for an object whose keys and values hold no comma, colon
\* or quote
json_loads(text) ==
    LET inner == Strip(SubSeq(Strip(text), 2, Len(Strip(text)) - 1))
        items == SplitOn(inner, ",")
    IN  IF inner = "" THEN << >>
        ELSE [i \in 1..Len(items) |->
                << unquote(SplitOn(items[i], ":")[1]),
                   unquote(SplitOn(items[i], ":")[2]) >>]

\* what f.read() returns right after open(path, "w+"): the mode truncates the
\* file, whatever it held
read_after_open_w_plus(text) == ""

\* utils.add_to_config(path, data, assert_ok): the text the file holds
\* afterwards, `text` being what it held before (or "" when it was not there).
\* json.load(f) runs only when f.read() returned something; the stream is then
\* at its end.
add_to_config(text, data, assert_ok) ==
    LET read == read_after_open_w_plus(text)
        content == IF read # "" THEN json_loads(read) ELSE << >>
        kept == { i \in 1..Len(data) :
                    ~assert_ok \/ dict_get(content, data[i][1], None) # data[i][2] }
        new_data == [k \in 1..Cardinality(kept) |-> data[Nth(kept, k)]]
    IN  json_dumps(dict_update(content, new_data))

\* CLIAccessManager._read_config, `text` being what the file holds ("" when it
\* has just been created)
_read_config(text) == IF text = "" THEN << >> ELSE json_loads(text)

\* the path _handle_work_path works on: DEFAULT_WORK_DIR when none is given and
\* the config names none. A value of "" counts as none
\* (`not self._config.get("work_dir", False)`).
effective_path(config, path) ==
    IF path = None /\ dict_get(config, "work_dir", "") = ""
    THEN DEFAULT_WORK_DIR
    ELSE path

\* _handle_work_path raises ValueError
work_path_raises(fs, config, path) ==
    LET p == effective_path(config, path)
    IN  p # None /\ ~is_file(fs, p) /\ ~path_is_dir(p)

\* a variant that records the file itself as the working directory
_handle_work_path_KeepFile(fs, config, path) ==
    LET p == effective_path(config, path)
    IN  IF p = None \/ work_path_raises(fs, config, path) THEN config
        ELSE dict_update(config, << << "work_dir", p >> >>)

\* CLIAccessManager._handle_work_path: the config afterwards
_handle_work_path(fs, config, path) ==
    LET p == effective_path(config, path)
    IN  IF p = None \/ work_path_raises(fs, config, path) THEN config
        ELSE IF is_file(fs, p)
             THEN dict_update(config, << << "work_dir", parent(p) >> >>)
             ELSE dict_update(config, << << "work_dir", p >> >>)

\* the config file is written: it is created when it is not there
WriteConfigFile(fs, text, mtime) ==
    [n \in DOMAIN fs \cup {CONFIG_PATH} |->
        IF n = CONFIG_PATH THEN File("text", text, mtime) ELSE fs[n]]

\* what the config file holds, "" when it is not there
ConfigText(fs) == IF CONFIG_PATH \in DOMAIN fs THEN fs[CONFIG_PATH].data ELSE ""

\* The config files a run can start with, as the program leaves them: none, an
\* empty one (_create_config_file), or the dump of a dict.
ConfigTexts ==
    { "",
      "{\"work_dir\": \"/old/dir\"}",
      "{\"timeout\": \"3\"}",
      "{\"timeout\": \"3\", \"work_dir\": \"/old/dir\"}",
      "{\"work_dir\": \"\"}" }

StoreOnly == [n \in {STORE_FILE} |-> File("gpg", SNAPSHOT_CONTENT, 1)]

ConfigDirs == { StoreOnly } \cup { WriteConfigFile(StoreOnly, t, 1) : t \in ConfigTexts }

\* What a caller passes to add_to_config.
ConfigData ==
    { << << "work_dir", "/new/dir" >> >>,
      << << "timeout", "5" >> >>,
      << << "work_dir", "/old/dir" >>, << "lang", "en" >> >> }

\* What a caller passes as work_path.
WorkPaths == { None, WORK_DIR, STORE_FILE, WRONG_PATH }

\* utils.add_to_config(CONFIG_PATH, data, assert_ok)
AddToConfig(data, assert_ok) ==
    /\ calls < MaxCalls
    /\ calls' = calls + 1
    /\ clock' = clock + 1
    /\ files' = WriteConfigFile(files,
                                add_to_config(ConfigText(files), data, assert_ok),
                                clock + 1)
    /\ last' = Call("add_to_config", data, today, 0, "not called", FALSE, None)
    /\ UNCHANGED << other, pending, today, import_day, scope, dir, encrypted_file_path,
                    is_content_updated, credentials, commit_calls,
                    dirty_commits, written >>

\* CLIAccessManager(Encrypter, config_path=CONFIG_PATH, work_path=work_path);
\* the result of the call is the manager's _config
NewManager(work_path) ==
    LET there == CONFIG_PATH \in DOMAIN files
        read == _read_config(ConfigText(files))
        raised == work_path_raises(files, read, work_path)
    IN  /\ calls < MaxCalls
        /\ calls' = calls + 1
        /\ IF there
           THEN UNCHANGED << files, clock >>
           ELSE /\ clock' = clock + 1
                /\ files' = WriteConfigFile(files, "", clock + 1)
        /\ last' = Call("CLIAccessManager", work_path, today, 0, "not called",
                        raised,
                        IF raised THEN "ValueError"
                        ELSE _handle_work_path(files, read, work_path))
        /\ UNCHANGED << other, pending, today, import_day, scope, dir, encrypted_file_path,
                        is_content_updated, credentials, commit_calls,
                        dirty_commits, written >>

\* CLIAccessManager.write_config, on the manager the call before has made
WriteConfig ==
    /\ last.op = "CLIAccessManager"
    /\ ~last.raised
    /\ calls < MaxCalls
    /\ calls' = calls + 1
    /\ clock' = clock + 1
    /\ files' = WriteConfigFile(files, json_dumps(last.ret), clock + 1)
    /\ last' = Call("write_config", None, today, 0, "not called", FALSE, last.ret)
    /\ UNCHANGED << other, pending, today, import_day, scope, dir, encrypted_file_path,
                    is_content_updated, credentials, commit_calls,
                    dirty_commits, written >>

ConfigInit ==
    /\ today = 1
    /\ import_day = 1
    /\ files \in ConfigDirs
    /\ clock = 1
    /\ scope = "none"
    /\ dir = None
    /\ encrypted_file_path = None
    /\ is_content_updated = FALSE
    /\ credentials = {}
    /\ last = [op |-> "start", arg |-> None, day |-> 1, roll |-> 0,
               backend |-> "not called", raised |-> FALSE, ret |-> None,
               dirty |-> FALSE, path |-> None, store |-> {}, after |-> None]
    /\ calls = 0
    /\ commit_calls = 0
    /\ dirty_commits = 0
    /\ written = 0
    /\ other = [scope |-> "none", dir |-> None, encrypted_file_path |-> None,
                is_content_updated |-> FALSE, credentials |-> {}, calls |-> 0,
                commit_calls |-> 0, dirty_commits |-> 0, written |-> 0,
                pending |-> None]
    /\ pending = None

ConfigNext ==
    \/ \E data \in ConfigData, assert_ok \in BOOLEAN : AddToConfig(data, assert_ok)
    \/ \E work_path \in WorkPaths : NewManager(work_path)
    \/ WriteConfig

ConfigSpec == ConfigInit /\ [][ConfigNext]_vars

\* ------------------------------------------------------------- properties
\* a step that is a call of encrypt_into_new_file_if_content_updated
CommitStep == commit_calls' = commit_calls + 1

\* a step that is a call made by the process
CallStep == calls' = calls + 1

CommitOps == {"commit", "exit"}

\* the lines of a snapshot's plaintext
Lines(data) == SplitOn(data, FILE_ITEMS_SEPARATOR)

\* `data` holds one line per record of `store`, the record's as_line()
HoldsStore(data, store) ==
    IF store = {} THEN data = ""
    ELSE LET lines == Lines(data)
         IN  /\ Len(lines) = Cardinality(store)
             /\ \A c \in store :
                   Cardinality({ i \in 1..Len(lines) : lines[i] = as_line(c) })
                       = Cardinality({ d \in store : as_line(d) = as_line(c) })

\* C1: a commit, direct or at the exit of a block, made while the
\* content-updated flag is false does nothing: it returns None, raises nothing,
\* does not call the backend, creates no file, and leaves the store, the flag
\* and encrypted_file_path as they were.
C1_CleanCommitIsNoOp ==
    [][(CommitStep /\ ~is_content_updated) =>
          /\ last'.ret = None
          /\ ~last'.raised
          /\ last'.backend = "not called"
          /\ files' = files
          /\ credentials' = credentials
          /\ encrypted_file_path' = encrypted_file_path
          /\ is_content_updated' = is_content_updated]_vars

\* a commit has been made on a loaded, unchanged store
C1_Witness ==
    /\ commit_calls >= 1
    /\ last.op \in CommitOps
    /\ ~last.dirty
    /\ last.store # {}
    /\ last.ret = None

\* C2: a commit made with the flag true, the backend succeeding, writes exactly
\* one new file, at a path _generate_file_path returns for the directory as it
\* was, holding the as_line() of every record of the store joined by the
\* separator; it returns that path, sets encrypted_file_path to it and resets
\* the flag; the store is unchanged.
C2_DirtyCommitWritesSnapshot ==
    [][(CommitStep /\ is_content_updated /\ last'.backend = "ok") =>
          LET p == last'.ret
              g == _generate_file_path(DOMAIN files, last'.day, last'.roll, None)
          IN  /\ ~last'.raised
              /\ p \in (IF g = None THEN UuidNames ELSE {g})
              /\ p \notin DOMAIN files
              /\ DOMAIN files' = DOMAIN files \cup {p}
              /\ \A n \in DOMAIN files : files'[n] = files[n]
              /\ files'[p].kind = "gpg"
              /\ HoldsStore(files'[p].data, credentials)
              /\ encrypted_file_path' = p
              /\ ~is_content_updated'
              /\ credentials' = credentials]_vars

\* a snapshot of two records or more has been written
C2_Witness ==
    /\ last.op \in CommitOps
    /\ last.dirty
    /\ last.backend = "ok"
    /\ Cardinality(last.store) >= 2
    /\ last.ret \in DOMAIN files
    /\ encrypted_file_path = last.ret

\* C3 as stated: once a block has been left, the commit has run exactly once,
\* and one snapshot was written if the store was dirty at the exit and none
\* otherwise.
C3_ExitWritesIffDirty ==
    scope = "exited" =>
        /\ commit_calls = 1
        /\ written = (IF last.dirty THEN 1 ELSE 0)

\* C3, amended: once a block has been left, by whatever way, the commit has run
\* exactly once, as the last call; it called the backend exactly when the store
\* was dirty; one snapshot was written if the store was dirty and the backend
\* succeeded; if the backend failed the exit raised, no snapshot was written and
\* the flag is still set.
C3_ExitCommitsOnce ==
    scope = "exited" =>
        /\ commit_calls = 1
        /\ last.op = "exit"
        /\ last.arg \in {"return", "exception", "timeout"}
        /\ (last.backend = "not called") = ~last.dirty
        /\ written = (IF last.dirty /\ last.backend = "ok" THEN 1 ELSE 0)
        /\ last.backend = "ok" => ~is_content_updated /\ last.ret \in DOMAIN files
        /\ last.backend = "failed" => last.raised /\ is_content_updated

\* a block with a dirty store has been left by an exception, and the snapshot
\* is written
C3_Witness ==
    /\ scope = "exited"
    /\ last.arg = "exception"
    /\ last.dirty
    /\ last.backend = "ok"
    /\ written = 1

\* C4: a commit that follows a successful commit, with no call in between,
\* writes no file and returns None; and the snapshots written for an object are
\* never more than the commits made on it while the flag was true.
C4_NoDoubleCommit ==
    /\ [](written <= dirty_commits)
    /\ [][(CommitStep /\ last.op \in CommitOps /\ last.backend = "ok") =>
             /\ last'.ret = None
             /\ last'.backend = "not called"
             /\ files' = files]_vars

\* a second commit has followed a successful one
C4_Witness ==
    /\ last.op = "commit"
    /\ last.after = "commit"
    /\ commit_calls = 2
    /\ dirty_commits = 1
    /\ written = 1
    /\ last.ret = None

\* C5: a commit changes no file that was in the directory: every file there
\* before it is there after it with the same content, the file the object was
\* loaded from included.
C5_AppendOnly ==
    [][CommitStep =>
          \A n \in DOMAIN files : n \in DOMAIN files' /\ files'[n] = files[n]]_vars

\* a snapshot has been written by an object loaded from a file, which is there
C5_Witness ==
    /\ last.op \in CommitOps
    /\ last.backend = "ok"
    /\ last.path # None
    /\ last.path \in DOMAIN files
    /\ last.ret \in DOMAIN files
    /\ last.ret # last.path

\* a step in which _generate_file_path has returned last'.ret
GenerateStep ==
    \/ CallStep /\ last'.op = "_generate_file_path"
    \/ CommitStep /\ last'.backend = "ok"

\* the candidate indexes free in the directory for the date of `day`
FreeOn(day) == FreeIndexes(DOMAIN files, day, 0)

\* two calls of _generate_file_path, one after the other, on one day
TwiceOnOneDay ==
    /\ CallStep
    /\ last.op = "_generate_file_path"
    /\ last'.op = "_generate_file_path"
    /\ last.roll = 0
    /\ last'.roll = 0
    /\ last'.day = last.day

C8_FirstFreeNameOfToday ==
    [][(GenerateStep /\ \A d \in {last'.day, today'} : FreeOn(d) # {}) =>
          \E d \in {last'.day, today'} :
              last'.ret = FILE_NAMES[d][Min(FreeOn(d))]]_vars

\* C9: when the backend fails on decrypt, decrypt_file raises and leaves the
\* store, the flag and encrypted_file_path unchanged; in the constructor the
\* error leaves no object to use; and an object in use was never opened with a
\* failed decrypt.
C9_DecryptFailureRaises ==
    /\ [][(CallStep /\ last'.op = "decrypt_file" /\ last'.backend = "failed") =>
             /\ last'.raised
             /\ credentials' = credentials
             /\ is_content_updated' = is_content_updated
             /\ encrypted_file_path' = encrypted_file_path]_vars
    /\ [][(CallStep /\ last'.op = "open" /\ last'.backend = "failed") =>
             /\ last'.raised
             /\ scope' = "none"
             /\ encrypted_file_path' = None
             /\ credentials' = last'.store
             /\ is_content_updated' = last'.dirty]_vars
    /\ []((InBody /\ last.op = "open") => last.backend # "failed" /\ ~last.raised)

\* decrypt_file has failed on an object that holds records
C9_Witness ==
    /\ last.op = "decrypt_file"
    /\ last.backend = "failed"
    /\ last.raised
    /\ last.store # {}
    /\ credentials = last.store

\* C10: when the backend fails on encrypt, the commit raises, the flag stays
\* true, the store, encrypted_file_path and the directory are unchanged; and
\* the commit that follows a failed commit calls the backend again.
C10_EncryptFailureKeepsDirty ==
    /\ [][(CommitStep /\ last'.backend = "failed") =>
             /\ last'.raised
             /\ is_content_updated /\ is_content_updated'
             /\ encrypted_file_path' = encrypted_file_path
             /\ credentials' = credentials
             /\ files' = files]_vars
    /\ [][(CommitStep /\ last.op \in CommitOps /\ last.backend = "failed") =>
             last'.backend # "not called"]_vars

\* a commit has succeeded after a failed one
C10_Witness ==
    /\ last.op = "commit"
    /\ last.after = "commit"
    /\ last.backend = "ok"
    /\ commit_calls = 2
    /\ dirty_commits = 2
    /\ written = 1

\* the records a call of add_content(content) parses, whatever ids they get
Parsed(content) == from_string(content, 1, DefaultUpdatedOn)

\* every record `content` holds is in `store` already, compared on resource,
\* login, password, kind and updated_on
AllPresent(content, store) ==
    /\ Parsed(content) # {}
    /\ \A r \in Parsed(content) : \E c \in store : Fields(c) = Fields(r)

\* C11 as stated: add_content with a line whose resource, login, password, kind
\* and updated_on equal those of a record of the store leaves the number of
\* records unchanged.
C11_ReAddIsIdempotent ==
    [][(CallStep /\ last'.op = "add_content" /\ AllPresent(last'.arg, credentials)) =>
          Cardinality(credentials') = Cardinality(credentials)]_vars

\* C12 as stated: an add_content that leaves the store as it was (every line
\* invalid, or every record already there) leaves the flag as it was.
C12_AddSetsFlagOnlyOnChange ==
    [][(CallStep /\ last'.op = "add_content" /\ credentials' = credentials) =>
          is_content_updated' = is_content_updated]_vars

\* C13 as stated: after remove_credentials the flag is set exactly if it was
\* set before or a record has been removed.
C13_RemoveSetsFlagIffRemoved ==
    [][(CallStep /\ last'.op = "remove_credentials") =>
          is_content_updated' = (is_content_updated \/ credentials' # credentials)]_vars

\* the records of `store` whose display string `pattern` matches
Matching(store, pattern) == { c \in store : re_search(pattern, display(c)) }

\* C14: a remove_credentials with a non-empty pattern that returns deletes
\* exactly the records search_in_content(pattern) returned just before, and a
\* search_in_content(pattern) right after it returns the empty set.
C14_RemoveDeletesWhatSearchFinds ==
    /\ [][(CallStep /\ last'.op = "remove_credentials" /\ last'.arg # ""
             /\ ~last'.raised) =>
             /\ credentials' = credentials \ Matching(credentials, last'.arg)
             /\ Matching(credentials', last'.arg) = {}
             /\ (last.op = "search_in_content" /\ last.arg = last'.arg
                    /\ ~last.raised) =>
                   /\ credentials' = credentials \ last.ret
                   /\ credentials' \cup last.ret = credentials]_vars
    /\ [][(CallStep /\ last'.op = "search_in_content"
             /\ last.op = "remove_credentials" /\ last.arg = last'.arg
             /\ last.arg # "" /\ ~last.raised) =>
             ~last'.raised /\ last'.ret = {}]_vars

\* a remove has deleted the records a search had found, and left others
C14_Witness ==
    /\ last.op = "remove_credentials"
    /\ last.after = "search_in_content"
    /\ last.arg = "site.com"
    /\ credentials # {}
    /\ credentials # last.store
    /\ Matching(last.store, "site.com") # {}

\* the records of a store, compared on every field but id
FieldsOf(store) == { Fields(c) : c \in store }

\* an object is opened on the directory, and loads a snapshot, right after a
\* commit has written one
OpenAfterCommit ==
    /\ CallStep
    /\ last'.op = "open"
    /\ last'.arg = WORK_DIR
    /\ last'.backend = "ok"
    /\ last.op \in CommitOps
    /\ last.backend = "ok"

\* the snapshot the last commit wrote is newer than every other entry with the
\* extension
CommittedIsNewest ==
    \A n \in EncryptedNames(files) \ {last.ret} :
        files[n].mtime < files[last.ret].mtime

\* after add_content the store holds what it held and the records of the
\* content's valid lines
AddAddsParsed ==
    [][(CallStep /\ last'.op = "add_content") =>
          FieldsOf(credentials') =
              FieldsOf(credentials) \cup FieldsOf(Parsed(last'.arg))]_vars

\* C15 as stated: an object opened on the directory after a commit holds
\* exactly the records the committing object held: its prior content and what
\* was added to it.
C15_NextSessionSeesCommit ==
    /\ AddAddsParsed
    /\ [][OpenAfterCommit => FieldsOf(credentials') = FieldsOf(last.store)]_vars

\* C15, amended: the same, provided the committed snapshot's modification time
\* is later than that of every other entry whose name ends with the extension.
C15_NextSessionSeesNewestCommit ==
    /\ AddAddsParsed
    /\ [][(OpenAfterCommit /\ CommittedIsNewest) =>
             /\ last'.ret = last.ret
             /\ FieldsOf(credentials') = FieldsOf(last.store)]_vars

\* an object opened on the directory holds the prior record and the one the
\* block before it added and committed at its exit
C15_Witness ==
    /\ last.op = "open"
    /\ last.arg = WORK_DIR
    /\ last.after = "exit"
    /\ last.backend = "ok"
    /\ Cardinality(credentials) = 2
    /\ { c.resource : c \in credentials } = {"site.com", "new.com"}
    /\ encrypted_file_path \notin {None, "access_01012023.gpg"}

\* the entries with the extension that no other such entry is newer than
NewestEntries ==
    LET latest == Max({ files[n].mtime : n \in EncryptedNames(files) })
    IN  { n \in EncryptedNames(files) : files[n].mtime = latest }

\* the records a snapshot file holds
RecordsOf(name) == from_string(files[name].data, 1, DefaultUpdatedOn)

\* C16 as stated, for a backend that does not fail: opening on the directory
\* sets dir to it; without an entry whose name ends with the extension the
\* store is empty, encrypted_file_path is None and nothing is raised; with one,
\* the newest is decrypted into the store and encrypted_file_path is set to it.
C16_OpenOnDirectoryLoadsNewest ==
    [][(CallStep /\ last'.op = "open" /\ last'.arg = WORK_DIR
            /\ last'.backend # "failed") =>
          /\ dir' = WORK_DIR
          /\ ~last'.raised
          /\ IF EncryptedNames(files) = {}
             THEN credentials' = {} /\ encrypted_file_path' = None
             ELSE /\ encrypted_file_path' \in NewestEntries
                  /\ credentials' = RecordsOf(encrypted_file_path')]_vars

\* C17: opening on a file whose name ends with the extension, the backend
\* succeeding, sets dir to the file's directory, decrypts that file, newest or
\* not: encrypted_file_path is the given path, the store holds that file's
\* records and no others, and the flag is not set.
C17_OpenOnSnapshotLoadsThatFile ==
    [][(CallStep /\ last'.op = "open" /\ is_file(files, last'.arg)
            /\ EndsWith(last'.arg, ENCRYPTED_FILE_EXTENSION)
            /\ last'.backend = "ok") =>
          /\ ~last'.raised
          /\ dir' = WORK_DIR
          /\ last'.ret = last'.arg
          /\ encrypted_file_path' = last'.arg
          /\ credentials' = RecordsOf(last'.arg)
          /\ ~is_content_updated']_vars

\* an object has been opened on a snapshot while the directory holds a newer
\* snapshot with other content
C17_Witness ==
    /\ last.op = "open"
    /\ last.arg = "access_01012023.gpg"
    /\ last.backend = "ok"
    /\ encrypted_file_path = last.arg
    /\ credentials = RecordsOf(last.arg)
    /\ \E n \in EncryptedNames(files) :
          /\ files[n].mtime > files[last.arg].mtime
          /\ files[n].kind = "gpg"
          /\ files[n].data # files[last.arg].data

\* C18 as stated: opening on a file whose name does not end with the
\* extension, the backend not failing, sets dir to the file's directory and
\* leaves in the store the records of the seed and those of the newest
\* snapshot, a record that is in both (compared on every field but id) once.
C18_SeedAndSnapshotUnion ==
    [][(CallStep /\ last'.op = "open" /\ Seeded(files, last'.arg)
            /\ ~last'.raised) =>
          /\ dir' = WORK_DIR
          /\ FieldsOf(credentials') =
                FieldsOf(RecordsOf(last'.arg))
                    \cup (IF last'.ret = None THEN {}
                          ELSE FieldsOf(RecordsOf(last'.ret)))
          /\ Cardinality(credentials') = Cardinality(FieldsOf(credentials'))]_vars

\* C19: opening on a path that is neither a file nor a directory raises: no
\* object is obtained, the backend is not called, and the directory is as it
\* was.
C19_WrongPathRaises ==
    [][(CallStep /\ last'.op = "open" /\ last'.arg \notin DOMAIN files
            /\ last'.arg # WORK_DIR) =>
          /\ last'.raised
          /\ scope' = "none"
          /\ last'.backend = "not called"
          /\ last'.ret = None
          /\ files' = files]_vars

\* an open on a wrong path has failed next to a directory that holds a snapshot
C19_Witness ==
    /\ last.op = "open"
    /\ last.arg = WRONG_PATH
    /\ last.raised
    /\ scope = "none"
    /\ EncryptedNames(files) # {}

\* str.lower() of one character
LowerChar(c) ==
    LET upper == "ABCDEFGHIJKLMNOPQRSTUVWXYZ"
        lower == "abcdefghijklmnopqrstuvwxyz"
        at == { i \in 1..Len(upper) : CharAt(upper, i) = c }
    IN  IF at = {} THEN c ELSE CharAt(lower, CHOOSE i \in at : TRUE)

\* the pattern matches the text when letter case is ignored
MatchesIgnoringCase(pattern, text) ==
    \E k \in 1..(Len(text) - Len(pattern) + 1) :
        \A j \in 1..Len(pattern) :
            IF CharAt(pattern, j) = "."
            THEN CharAt(text, k + j - 1) # "\n"
            ELSE LowerChar(CharAt(pattern, j)) = LowerChar(CharAt(text, k + j - 1))

\* C20 as stated: search_in_content(pattern) returns every record whose
\* display string the pattern matches when letter case is ignored.
C20_SearchIgnoresCase ==
    [][(CallStep /\ last'.op = "search_in_content" /\ ~last'.raised) =>
          \A c \in credentials :
              MatchesIgnoringCase(last'.arg, display(c)) => c \in last'.ret]_vars

\* C21: search_in_content on an empty store returns the empty set for every
\* pattern, one re.search cannot compile included, and raises nothing; on a
\* store with records none of which the pattern matches it returns the empty
\* set too.
C21_SearchFindsNothing ==
    [][(CallStep /\ last'.op = "search_in_content") =>
          /\ credentials = {} => ~last'.raised /\ last'.ret = {}
          /\ (credentials # {} /\ ~re_error(last'.arg)
                 /\ \A c \in credentials : ~re_search(last'.arg, display(c))) =>
                ~last'.raised /\ last'.ret = {}]_vars

\* a search with a pattern that does not compile has returned the empty set on
\* an empty store
C21_Witness ==
    /\ last.op = "search_in_content"
    /\ ~last.raised
    /\ last.ret = {}
    /\ last.store = {}
    /\ re_error(last.arg)

\* `sub` occurs in `text`
Occurs(sub, text) ==
    \E k \in 1..(Len(text) - Len(sub) + 1) : SubSeq(text, k, k + Len(sub) - 1) = sub

\* a search that follows an add_content, with the resource of a record the add
\* inserted as pattern
SearchForAdded ==
    /\ CallStep
    /\ last'.op = "search_in_content"
    /\ last.op = "add_content"
    /\ \E c \in credentials \ last.store : c.resource = last'.arg

\* the records the add before the search inserted with that resource
AddedWith(resource) == { c \in credentials \ last.store : c.resource = resource }

\* C22 as stated: after add_content of valid lines, search_in_content with the
\* added resource as pattern returns every added record, with the fields
\* given, and exactly the added records when the resource occurs in the display
\* string of no other record.
C22_SearchFindsAdded ==
    [][SearchForAdded =>
          /\ ~last'.raised
          /\ AddedWith(last'.arg) \subseteq last'.ret
          /\ FieldsOf(AddedWith(last'.arg)) \subseteq FieldsOf(Parsed(last.arg))
          /\ (\A d \in last.store : ~Occurs(last'.arg, display(d))) =>
                last'.ret = AddedWith(last'.arg)]_vars

\* C22, amended: the same, provided the resource is a regular expression that
\* compiles and matches itself, and with "the pattern matches the display
\* string of no other record" as the condition for "exactly".
C22_SearchFindsAddedWhenResourceCompiles ==
    [][(SearchForAdded /\ ~re_error(last'.arg)) =>
          /\ ~last'.raised
          /\ AddedWith(last'.arg) \subseteq last'.ret
          /\ FieldsOf(AddedWith(last'.arg)) \subseteq FieldsOf(Parsed(last.arg))
          /\ (\A d \in last.store : ~re_search(last'.arg, display(d))) =>
                last'.ret = AddedWith(last'.arg)]_vars

\* a search for the resource of the one record added to an empty store has
\* returned that record
C22_Witness ==
    /\ last.op = "search_in_content"
    /\ last.after = "add_content"
    /\ last.arg = "site.com"
    /\ files = EmptyDir
    /\ Cardinality(last.store) = 1
    /\ last.ret = last.store
    /\ FieldsOf(last.ret) = FieldsOf(Parsed(SNAPSHOT_CONTENT))

\* C23 as stated: every record an add_content inserts gets an id greater than
\* every id the store held before the add.
C23_AddedIdsAboveMax ==
    [][(CallStep /\ last'.op = "add_content") =>
          \A c \in credentials' \ credentials :
              \A d \in credentials : c.id > d.id]_vars

\* a step that parses the line an instance writes, under the instance's id
ReparseStep ==
    /\ CallStep
    /\ last'.op = "from_string of as_line"
    /\ last.op = "Credentials"
    /\ ~last.raised

\* C24 as stated: for every record the construction accepts, from_string of
\* its as_line(), under the same id, returns exactly one record, equal to it.
C24_RoundTrip ==
    [][ReparseStep => last'.ret = {last.ret}]_vars

\* a step that is a call of Credentials(id, *args) with 3 to 5 arguments
ConstructStep ==
    /\ CallStep
    /\ last'.op = "Credentials"
    /\ Len(last'.arg) \in 3..5

\* the string holds a space, a tab or a newline
HasWhitespace(str) == \E i \in 1..Len(str) : IsSpace(CharAt(str, i))

\* C25 as stated: the construction raises whenever resource, login, password
\* or kind holds a whitespace character.
C25_WhitespaceIsRejected ==
    [][(ConstructStep
          /\ \E i \in 1..Len(last'.arg) : i <= 4 /\ HasWhitespace(last'.arg[i])) =>
          last'.raised]_vars

\* dd.mm.yyyy and nothing else
IsDottedDate(str) ==
    /\ Len(str) = 10
    /\ \A i \in {1, 2, 4, 5, 7, 8, 9, 10} : IsDigit(CharAt(str, i))
    /\ \A i \in {3, 6} : CharAt(str, i) = "."

\* C26 as stated: the construction raises unless updated_on has exactly the
\* form dd.mm.yyyy.
C26_DateFormIsExact ==
    [][(ConstructStep /\ Len(last'.arg) = 5 /\ ~IsDottedDate(last'.arg[5])) =>
          last'.raised]_vars

\* the lines of a text that have 3 to 5 tokens which pass the validation
ValidLines(text) ==
    LET lines == Lines(text)
    IN  { k \in 1..Len(lines) :
            /\ Len(SplitWs(lines[k])) \in 3..5
            /\ PostInitOk(WithDefaults(SplitWs(lines[k]), DefaultUpdatedOn)) }

\* the fields those lines give: their tokens, and the defaults for a token
\* that is not there
LineFields(text) ==
    LET lines == Lines(text)
    IN  { Fields(WithDefaults(SplitWs(lines[k]), DefaultUpdatedOn)) :
            k \in ValidLines(text) }

\* C27: from_string raises nothing, and returns one record for each line that
\* has 3 to 5 tokens passing the validation, with the line's tokens as fields,
\* whatever the other lines are.
C27_FromStringSkipsBadLines ==
    [][(CallStep /\ last'.op \in {"from_string", "from_string of as_line"}) =>
          /\ ~last'.raised
          /\ Cardinality(last'.ret) = Cardinality(ValidLines(last'.arg))
          /\ FieldsOf(last'.ret) = LineFields(last'.arg)]_vars

\* from_string has returned the records of the lines before and after a
\* malformed line
C27_Witness ==
    /\ last.op = "from_string"
    /\ Len(Lines(last.arg)) = 5
    /\ Cardinality(ValidLines(last.arg)) = 2
    /\ { c.resource : c \in last.ret } = {"a.org", "c.org"}

\* a step in which the constructor has called find_newest_encrypted_file, and
\* last'.ret is what it returned
FindNewestStep ==
    /\ CallStep
    /\ last'.op = "open"
    /\ last'.arg = WORK_DIR \/ Seeded(files, last'.arg)

\* C28: find_newest_encrypted_file returns None when no entry of the directory
\* has a name ending with the extension; otherwise it returns an entry whose
\* name ends with the extension and than which no such entry is newer.
C28_NewestSnapshotIsSelected ==
    [][FindNewestStep =>
          IF \A n \in DOMAIN files : ~EndsWith(n, ENCRYPTED_FILE_EXTENSION)
          THEN last'.ret = None
          ELSE /\ last'.ret \in DOMAIN files
               /\ EndsWith(last'.ret, ENCRYPTED_FILE_EXTENSION)
               /\ \A n \in DOMAIN files :
                     EndsWith(n, ENCRYPTED_FILE_EXTENSION) =>
                         files[n].mtime <= files[last'.ret].mtime]_vars

\* the snapshot has been selected in a directory whose newest entry is a file
\* without the extension
C28_Witness ==
    /\ last.op = "open"
    /\ last.arg = WORK_DIR
    /\ last.ret = "access_01012023.gpg"
    /\ "txt_with_content_example" \in DOMAIN files
    /\ files["txt_with_content_example"].mtime > files[last.ret].mtime

\* Both processes have left their block with a snapshot written, the process
\* that is running last, and its snapshot is the newest of the directory.
BothCommitted ==
    /\ scope = "exited"
    /\ other.scope = "exited"
    /\ last.op = "exit"
    /\ last.backend = "ok"
    /\ encrypted_file_path = last.ret
    /\ written = 1
    /\ other.written = 1
    /\ CommittedIsNewest

\* the records the other process holds and the running one does not
OnlyOther == FieldsOf(other.credentials) \ FieldsOf(credentials)

\* C29: when two processes on one directory have both committed, neither
\* commit has raised, and the newest snapshot holds the records of the process
\* that committed last and none of those only the other one held: what the
\* other added is not in it. The witness is the interleaving in which both open
\* before either commits and add different records.
C29_LastCommitDropsOtherAdds ==
    BothCommitted =>
        /\ ~last.raised
        /\ ~is_content_updated
        /\ ~other.is_content_updated
        /\ NewestEntries = {last.ret}
        /\ other.encrypted_file_path \in DOMAIN files
        /\ FieldsOf(RecordsOf(last.ret)) = FieldsOf(credentials)
        /\ \A r \in OnlyOther : r \notin FieldsOf(RecordsOf(last.ret))

\* both processes opened on the directory, one added new.com and the other
\* *.ex.com, both left their block without an error, and the newest snapshot
\* holds new.com and not *.ex.com
C29_Witness ==
    /\ BothCommitted
    /\ ~last.raised
    /\ last.path = None
    /\ "*.ex.com" \in { r.resource : r \in OnlyOther }
    /\ "*.ex.com" \in { c.resource : c \in RecordsOf(other.encrypted_file_path) }
    /\ { c.resource : c \in RecordsOf(last.ret) } = {"new.com"}
    /\ NewestEntries = {last.ret}

\* the resources of the lines of `content` that give no updated_on
WithoutDate(content) ==
    LET lines == Lines(content)
    IN  { SplitWs(lines[k])[1] :
            k \in { j \in 1..Len(lines) : Len(SplitWs(lines[j])) \in 3..4 } }

\* C30 as stated: a record add_content makes from a line without updated_on
\* carries the date of the day of the add: a day not before the one the clock
\* last showed.
C30_DefaultDateIsDayOfAdd ==
    [][(CallStep /\ last'.op = "add_content") =>
          \A c \in credentials' \ credentials :
              c.resource \in WithoutDate(last'.arg) =>
                  \E d \in today..NumDays : c.updated_on = StrfDotted(Date(d))]_vars

\* ---------------------------------------------------------- the config file
\* a dict as the set of its items
Items(d) == { d[i] : i \in 1..Len(d) }

\* the items of `old` whose key `data` does not give, with the items of `data`
Merged(old, data) ==
    { p \in Items(old) : ~dict_has(data, p[1]) } \cup Items(data)

\* a step that is a call of add_to_config
AddToConfigStep == CallStep /\ last'.op = "add_to_config"

\* a step that is the construction of a CLIAccessManager
NewManagerStep == CallStep /\ last'.op = "CLIAccessManager"

\* C31: updating the config file with a dict keeps every key the file held
\* that the dict does not give, and sets each given key to its new value: the
\* file afterwards holds the old content merged with the update.
C31_UpdateMerges ==
    [][AddToConfigStep
          => Items(_read_config(ConfigText(files'))) =
                Merged(_read_config(ConfigText(files)), last'.arg)]_vars

\* C32: a constructed CLIAccessManager has config["work_dir"] set: to the
\* parent of work_path when that is a file, to work_path when it is a
\* directory, with no work_path to the value the config file holds, or to
\* DEFAULT_WORK_DIR when the file holds none or is not there; a work_path that
\* is neither a file nor a directory makes the construction raise ValueError.
C32_WorkDirIsSet ==
    [][NewManagerStep
          => LET work_path == last'.arg
                 held == dict_get(_read_config(ConfigText(files)), "work_dir", "")
                 wrong == /\ work_path # None
                          /\ ~is_file(files, work_path)
                          /\ ~path_is_dir(work_path)
             IN  /\ last'.raised <=> wrong
                 /\ wrong => last'.ret = "ValueError"
                 /\ ~wrong =>
                       dict_get(last'.ret, "work_dir", None) =
                          IF work_path = None
                          THEN (IF held # "" THEN held ELSE DEFAULT_WORK_DIR)
                          ELSE IF is_file(files, work_path) THEN parent(work_path)
                          ELSE work_path]_vars

\* a manager was made for a file, with a config file that add_to_config wrote
C32_Witness ==
    /\ last.op = "CLIAccessManager"
    /\ ~last.raised
    /\ last.arg = STORE_FILE
    /\ dict_get(last.ret, "work_dir", None) = STORE_DIR
    /\ dict_get(last.ret, "timeout", None) = "5"

\* ------------------------------------------------------ ids, flag and frame
\* C33 as stated: no two distinct records of the store carry the same id.
C33_IdsAreUnique ==
    \A c \in credentials : \A e \in credentials : c.id = e.id => c = e

\* a step that is a call of Encrypter(path) on the directory or on a file whose
\* name ends with the extension, and returns an object
CleanOpenStep ==
    /\ CallStep
    /\ last'.op = "open"
    /\ ~last'.raised
    /\ (last'.arg = WORK_DIR \/ EndsWith(last'.arg, ENCRYPTED_FILE_EXTENSION))

\* C34: right after a successful open on a directory or on an encrypted file
\* the flag is false; no call other than add_content, remove_credentials and
\* an open sets it (decrypt_file does not); and leaving the block with the flag
\* false writes nothing. A session opened this way and closed with no add and
\* no remove in between therefore writes no snapshot.
C34_CleanOpenWritesNothing ==
    [][/\ CleanOpenStep => ~is_content_updated'
       /\ ((CallStep \/ CommitStep)
             /\ last'.op \notin {"open", "add_content", "remove_credentials"})
            => (is_content_updated' => is_content_updated)
       /\ (CommitStep /\ last'.op = "exit" /\ ~is_content_updated)
            => /\ files' = files
               /\ written' = written
               /\ last'.backend = "not called"]_vars

\* a session was opened on the directory, loaded a snapshot, searched it, and
\* was closed: nothing was written
C34_Witness ==
    /\ scope = "exited"
    /\ last.op = "exit"
    /\ last.after = "search_in_content"
    /\ calls = 2
    /\ dir = WORK_DIR
    /\ encrypted_file_path = "access_01012023.gpg"
    /\ credentials # {}
    /\ ~is_content_updated
    /\ written = 0
    /\ files = SeedDir

\* a step that is a call of Encrypter(path) on a plaintext seed file, and
\* returns an object
SeededOpenStep ==
    /\ CallStep
    /\ last'.op = "open"
    /\ ~last'.raised
    /\ is_file(files, last'.arg)
    /\ ~EndsWith(last'.arg, ENCRYPTED_FILE_EXTENSION)

\* a step that leaves the block right after the open on a plaintext seed file
ExitAfterSeededOpen ==
    /\ CommitStep
    /\ last'.op = "exit"
    /\ last.op = "open"
    /\ ~last.raised
    /\ is_file(files, last.arg)
    /\ ~EndsWith(last.arg, ENCRYPTED_FILE_EXTENSION)

\* the exit has written one new file, which holds the records of the seed and
\* those of the snapshot the open decrypted (compared on every field but id)
WroteSeedAndSnapshot ==
    /\ written' = written + 1
    /\ ~last'.raised
    /\ DOMAIN files' = DOMAIN files \cup {last'.ret}
    /\ last'.ret \notin DOMAIN files
    /\ \A n \in DOMAIN files : files'[n] = files[n]
    /\ FieldsOf(from_string(files'[last'.ret].data, 1, DefaultUpdatedOn)) =
          FieldsOf(RecordsOf(last.arg))
              \cup (IF last.ret = None THEN {} ELSE FieldsOf(RecordsOf(last.ret)))

\* C35 as stated: a session opened on a plaintext seed file is dirty right
\* after the open, whatever the seed holds, and closing it with no add and no
\* remove writes one new snapshot holding the seed's records merged with the
\* newest snapshot's records.
C35_SeededExitWritesSnapshot ==
    [][/\ SeededOpenStep => is_content_updated'
       /\ ExitAfterSeededOpen => WroteSeedAndSnapshot]_vars

\* C35, amended: a session opened on a plaintext seed file is dirty right
\* after the open, whatever the seed holds, and closing it with no add and no
\* remove calls the backend once: when the backend succeeds the exit writes one
\* new snapshot holding the seed's records merged with the newest snapshot's
\* records, and when it fails the exit raises and writes nothing.
C35_SeededExitCallsBackend ==
    [][/\ SeededOpenStep => is_content_updated'
       /\ ExitAfterSeededOpen =>
             /\ last'.backend \in {"ok", "failed"}
             /\ last'.backend = "ok" => WroteSeedAndSnapshot
             /\ last'.backend = "failed" =>
                   /\ last'.raised
                   /\ files' = files
                   /\ written' = written]_vars

\* a session was opened on a seed none of whose lines is a record, and closed:
\* the new snapshot holds the records of the snapshot the open decrypted
C35_Witness ==
    /\ scope = "exited"
    /\ last.op = "exit"
    /\ last.after = "open"
    /\ ~last.raised
    /\ calls = 1
    /\ written = 1
    /\ last.ret \in DOMAIN files
    /\ "notes" \in DOMAIN files
    /\ Parsed(files["notes"].data) = {}
    /\ last.path = "access_01012023.gpg"
    /\ files[last.ret].data = SNAPSHOT_CONTENT
    /\ Cardinality(DOMAIN files) = 4
    /\ commit_calls = 1

\* C36: search_in_content, for every pattern, leaves the store, the flag,
\* encrypted_file_path and the working directory as they were, and writes no
\* snapshot.
C36_SearchIsReadOnly ==
    [][(CallStep /\ last'.op = "search_in_content") =>
          /\ credentials' = credentials
          /\ is_content_updated' = is_content_updated
          /\ encrypted_file_path' = encrypted_file_path
          /\ dir' = dir
          /\ files' = files
          /\ written' = written]_vars

\* two searches in a row on a store with records, the second finding some,
\* then the exit of the block, which wrote nothing
C36_Witness ==
    /\ scope = "exited"
    /\ last.op = "exit"
    /\ last.after = "search_in_content"
    /\ calls = 3
    /\ credentials # {}
    /\ ~is_content_updated
    /\ written = 0
    /\ last.backend = "not called"

\* C37: remove_credentials with an empty pattern removes no record and leaves
\* the store, the flag and encrypted_file_path as they were.
C37_EmptyPatternRemovesNothing ==
    [][(CallStep /\ last'.op = "remove_credentials" /\ last'.arg = "") =>
          /\ ~last'.raised
          /\ credentials' = credentials
          /\ is_content_updated' = is_content_updated
          /\ encrypted_file_path' = encrypted_file_path
          /\ files' = files]_vars

\* remove_credentials("") was called on a store with records and a clear flag
C37_Witness ==
    /\ last.op = "remove_credentials"
    /\ last.arg = ""
    /\ last.store # {}
    /\ credentials = last.store
    /\ ~last.dirty
    /\ ~is_content_updated
    /\ encrypted_file_path = last.path
    /\ encrypted_file_path # None

\* ------------------------------------------------ commits that interleave
\* a step in which the backend writes the snapshot of a commit
WriteStep ==
    /\ other' = other
    /\ pending # None
    /\ pending' = None
    /\ last'.backend = "ok"

\* C38 as stated: when two sessions on one directory commit concurrently, the
\* existence check of _generate_file_path and the backend's write being
\* separate steps, the two commits write two different files and neither
\* replaces a file the other has written.
C38_NoOverwrite ==
    [][WriteStep =>
          /\ last'.ret \notin DOMAIN files
          /\ other.written > 0 => last'.ret # other.encrypted_file_path]_vars

====
